---- MODULE Spec2Model ----
(***************************************************************************)
(* The crust/shell converger of make_crust.py (get_crust, fill,            *)
(* points_on_chunk_hull, find_empty_fill_position) as a state machine over *)
(* a sparse chunked voxel grid.                                            *)
(*                                                                         *)
(* A voxel is a triple <<x, y, z>> of integers, a chunk index likewise.    *)
(* A boolean ChunkGrid is a record [chunks |-> the resident chunk indices, *)
(* set |-> the voxels that are True]; a voxel of an absent chunk reads as  *)
(* the default fill value False.  A chunk none of whose voxels was ever    *)
(* written is in the constant-fill representation (is_filled) with value   *)
(* False: get_crust only ever writes True (crust[model] = True, dilation). *)
(* data/chunks.py, filters/dilate.py and filters/fill.py are not part of   *)
(* the sources at hand; ChunkGrid, dilate and flood_fill_at follow their   *)
(* description in the specification document.                              *)
(***************************************************************************)
EXTENDS Integers, Sequences, FiniteSets, TLC

VARIABLES
    chunk_size,     \* get_crust argument: edge length N of a chunk
    max_steps,      \* get_crust argument: step budget
    revert_steps,   \* get_crust argument: rollback depth
    model,          \* get_crust argument: the voxelized model points
    crust,          \* the current shell grid
    last_crust,     \* the history list of shell grids
    last_count,     \* count of the previous step
    step,           \* loop variable of "for step in range(0, max_steps)"
    components,     \* the label grid of the current labeling pass
    fill_position,  \* the next seed, or None
    color,          \* the next label
    returned,       \* the value get_crust returned (a grid), once it returned
    pc,             \* position in get_crust
    (* get_diffusion *)
    d_chunk_size,   \* crust.chunk_size
    d_crust,        \* get_diffusion argument: the voxels where crust is True
    d_model,        \* get_diffusion argument: the voxelized model points
    iterations,     \* get_diffusion argument
    distance,       \* the float grid, values in units of 1 / Scale
    d_i,            \* loop variable of "for i in range(iterations)"
    points_per_chunk, \* the voxels that were 0 when the iteration began
    todo,           \* the chunks the second loop of the iteration has yet to visit
    dpc,            \* position in get_diffusion
    (* ValueIter, PositionIter *)
    v_slice,        \* the slice an axis is built from: [start, stop, step]
    v_low,          \* ValueIter._low
    v_high,         \* ValueIter._high
    v_iter,         \* ValueIter._start, _stop, _step, once constructed
    v_yield,        \* the coordinates iteration has yielded
    v_len,          \* what __len__ reported: of the ValueIter and of the PositionIter
    vpc,            \* position in the use of the iterator
    (* IndexDict *)
    data,           \* IndexDict._data
    mm_min,         \* MinMaxCheck._min
    mm_max,         \* MinMaxCheck._max
    dirty,          \* MinMaxCheck._dirty
    only_inserts,   \* history: no del, pop or clear was called so far
    deleted_since_query, \* history: a key was removed after the last minmax() or clear()
    result,         \* the outcome of the last call
    (* flood_fill_at *)
    f_mask,         \* argument mask: the open voxels
    f_position,     \* argument position: the seed
    f_frontier,       \* the voxels reached and not yet expanded
    f_visited,        \* the voxels reached so far
    fpc             \* position in flood_fill_at

crustVars == <<chunk_size, max_steps, revert_steps, model, crust, last_crust,
               last_count, step, components, fill_position, color, returned, pc>>

diffVars == <<d_chunk_size, d_crust, d_model, iterations, distance, d_i,
              points_per_chunk, todo, dpc>>

iterVars == <<v_slice, v_low, v_high, v_iter, v_yield, v_len, vpc>>

dictVars == <<data, mm_min, mm_max, dirty, only_inserts, deleted_since_query, result>>

floodVars == <<f_mask, f_position, f_frontier, f_visited, fpc>>

vars == <<crustVars, diffVars, iterVars, dictVars, floodVars>>

-----------------------------------------------------------------------------
(* Bounds of the model *)

MaxSteps == 4
MaxRevert == 3

(* get_diffusion is run with 0..MaxIterations iterations *)
MaxIterations == 2

(* slices have start and stop in -1..MaxCoord and a step up to MaxStride; the
   bounds low <= high of an axis lie in 0..MaxHigh *)
MaxCoord == 3
MaxStride == 3
MaxHigh == 2

(* pad_chunks is tried with 1..MaxRings rings *)
MaxRings == 2

(* fill is tried on a row of RowLen voxels with start colors 2..MaxStartColor *)
RowLen == 9
MaxStartColor == 7

(* the chunk sizes tried *)
ChunkSizes == {1, 2}

(* fill(..., max_color=5): get_crust calls fill without max_color *)
max_color == 5

-----------------------------------------------------------------------------
(* Voxels, chunks, grids *)

None == <<>>

(* an optional integer: None, or <<n>> for the integer n *)
Some(n) == <<n>>

(* The parts of the state a specification does not use stay at these values. *)
DiffIdle ==
    /\ d_chunk_size = 1 /\ d_crust = {} /\ d_model = {} /\ iterations = 0
    /\ distance = [chunks |-> {}, cells |-> <<>>] /\ d_i = 0
    /\ points_per_chunk = {} /\ todo = {} /\ dpc = "idle"

IterIdle ==
    /\ v_slice = None /\ v_low = 0 /\ v_high = 0 /\ v_iter = None
    /\ v_yield = <<>> /\ v_len = None /\ vpc = "idle"

CrustIdle ==
    /\ chunk_size = 1 /\ max_steps = 0 /\ revert_steps = 0 /\ model = {}
    /\ crust = [chunks |-> {}, set |-> {}] /\ last_crust = <<>> /\ last_count = 0
    /\ step = 0 /\ components = [chunks |-> {}, cells |-> <<>>]
    /\ fill_position = None /\ color = 2
    /\ returned = [chunks |-> {}, set |-> {}] /\ pc = "idle"

FloodIdle ==
    /\ f_mask = {} /\ f_position = None /\ f_frontier = {} /\ f_visited = {}
    /\ fpc = "idle"

DictIdle ==
    /\ data = <<>> /\ mm_min = None /\ mm_max = None /\ dirty = FALSE
    /\ only_inserts = TRUE /\ deleted_since_query = FALSE
    /\ result = [op |-> "__init__", bad |-> FALSE, out |-> "ok", ret |-> "None",
                 rescan |-> FALSE, arg |-> None, called |-> FALSE]

Dirs6 ==
    {<<1, 0, 0>>, <<-1, 0, 0>>, <<0, 1, 0>>, <<0, -1, 0>>, <<0, 0, 1>>, <<0, 0, -1>>}

Add(p, d) == <<p[1] + d[1], p[2] + d[2], p[3] + d[3]>>

Abs(i) == IF i < 0 THEN -i ELSE i

Dist1(p, q) == Abs(p[1] - q[1]) + Abs(p[2] - q[2]) + Abs(p[3] - q[3])

(* chunk index of a position: floor(position / N) on every axis *)
ChunkIndex(p, N) == <<p[1] \div N, p[2] \div N, p[3] \div N>>

(* Chunk.position_low = chunk index * N *)
position_low(c, N) == <<c[1] * N, c[2] * N, c[3] * N>>

(* the voxels of the chunk with index c *)
ChunkVoxels(c, N) ==
    {<<c[1] * N + i, c[2] * N + j, c[3] * N + k>> : i \in 0..(N - 1), j \in 0..(N - 1), k \in 0..(N - 1)}

(* the voxels of all resident chunks *)
Resident(chunks, N) == UNION {ChunkVoxels(c, N) : c \in chunks}

(* ChunkGrid(chunk_size, dtype=bool, fill_value=False) *)
EmptyGrid == [chunks |-> {}, set |-> {}]

(* crust[model] = True: chunks are created on first write *)
SetPoints(g, pts, N) ==
    [chunks |-> g.chunks \cup {ChunkIndex(p, N) : p \in pts}, set |-> g.set \cup pts]

(* the 26 neighbours of a chunk index and the index itself *)
Ring(c) == {<<c[1] + i, c[2] + j, c[3] + k>> : i \in -1..1, j \in -1..1, k \in -1..1}

(* pad_chunks(1): default-filled chunks one ring around every resident
   chunk; chunks that exist are left as they are *)
pad_chunks(g) == [chunks |-> UNION {Ring(c) : c \in g.chunks}, set |-> g.set]

(* pad_chunks(rings): a shell of that many rings around every resident chunk *)
RECURSIVE pad_chunks_rings(_, _)
pad_chunks_rings(g, rings) ==
    IF rings = 0 THEN g ELSE pad_chunks(pad_chunks_rings(g, rings - 1))

(* lexicographic order of positions: the order of np.argwhere *)
LexLeq(p, q) ==
    \/ p[1] < q[1]
    \/ p[1] = q[1] /\ p[2] < q[2]
    \/ p[1] = q[1] /\ p[2] = q[2] /\ p[3] <= q[3]

LexMin(S) == CHOOSE p \in S : \A q \in S : LexLeq(p, q)

LexMax(S) == CHOOSE p \in S : \A q \in S : LexLeq(q, p)

(* The chunks a loop over a chunk dictionary can meet first.  The iteration
   order of the dictionary is fixed by insertion order, which the sources at
   hand do not determine: the model takes ascending and descending index
   order. *)
FirstOf(cs) == IF cs = {} THEN {} ELSE {LexMin(cs), LexMax(cs)}

(* iter_hull(): the resident chunks on the boundary of the bounding box of
   the resident chunk indices *)
iter_hull(g) ==
    LET lo(a) == CHOOSE m \in {c[a] : c \in g.chunks} : \A c \in g.chunks : m <= c[a]
        hi(a) == CHOOSE m \in {c[a] : c \in g.chunks} : \A c \in g.chunks : m >= c[a]
    IN {c \in g.chunks : \E a \in 1..3 : c[a] = lo(a) \/ c[a] = hi(a)}

(* Chunk.any() on a chunk of a boolean grid *)
ChunkAny(g, c, N) == ChunkVoxels(c, N) \cap g.set # {}

(* a dilation that keeps only the voxels it adds *)
dilate_rim(g, N) ==
    LET grown == {Add(p, d) : p \in g.set, d \in Dirs6} \ g.set
    IN [chunks |-> g.chunks \cup {ChunkIndex(p, N) : p \in grown}, set |-> grown]

(* binary dilation by the 6-neighbourhood; a voxel written into an absent
   chunk creates the chunk *)
dilate(g, N) ==
    LET grown == g.set \cup {Add(p, d) : p \in g.set, d \in Dirs6}
    IN [chunks |-> g.chunks \cup {ChunkIndex(p, N) : p \in grown}, set |-> grown]

-----------------------------------------------------------------------------
(* Labeling *)

(* components = crust.astype(int).copy(): 1 on the shell, 0 elsewhere *)
astype_int(g, N) ==
    [chunks |-> g.chunks,
     cells |-> [p \in Resident(g.chunks, N) |-> IF p \in g.set THEN 1 ELSE 0]]

(* mask_empty = components == 0, over the resident chunks *)
mask_empty(comp) == {p \in DOMAIN comp.cells : comp.cells[p] = 0}

RECURSIVE Grow(_, _, _)
Grow(frontier, reached, open) ==
    IF frontier = {} THEN reached
    ELSE LET next == ({Add(p, d) : p \in frontier, d \in Dirs6} \cap open) \ reached
         IN Grow(next, reached \cup next, open)

(* flood_fill_at(position, mask) for an open seed: the 6-connected component
   of open voxels that holds the seed *)
flood_fill_at(seed, open) == Grow({seed}, {seed}, open)

(* flood_fill_at on a seed that is not open is undefined: either nothing is
   reached, or the seed is taken as reached and the fill spreads from it *)
flood_fill_closed(seed, open) == {{}, Grow({seed}, {seed}, open)}

(* components[fill_mask] = color *)
SetLabel(comp, fill_mask, c) ==
    [chunks |-> comp.chunks,
     cells |-> [p \in DOMAIN comp.cells |-> IF p \in fill_mask THEN c ELSE comp.cells[p]]]

(* find_empty_point_in_chunk(chunk): the first True voxel of the chunk *)
find_empty_point_in_chunk(trueVoxels, c, N) ==
    LET pt == ChunkVoxels(c, N) \cap trueVoxels
    IN IF pt # {} THEN LexMin(pt) ELSE None

(* a find_empty_fill_position that only looks into the chunk of the lowest
   index *)
find_empty_fill_position_low(comp, N) ==
    LET open == mask_empty(comp)
        cs == {c \in comp.chunks : c = LexMin(comp.chunks) /\ ChunkVoxels(c, N) \cap open # {}}
    IN IF cs = {} THEN {None}
       ELSE {find_empty_point_in_chunk(open, c, N) : c \in FirstOf(cs)}

(* a find_empty_fill_position that never finds a further open voxel *)
find_empty_fill_position_none(comp, N) == {None}

(* find_empty_fill_position(mask): the first chunk of the mask with a True
   voxel gives the position; the iteration order of mask.chunks is open *)
find_empty_fill_position(comp, N) ==
    LET open == mask_empty(comp)
        cs == {c \in comp.chunks : ChunkVoxels(c, N) \cap open # {}}
    IN IF cs = {} THEN {None}
       ELSE {find_empty_point_in_chunk(open, c, N) : c \in FirstOf(cs)}

(* points_on_chunk_hull(grid, count=1): the positions it can return *)
points_on_chunk_hull(g, N) ==
    IF g.chunks = {} THEN {None}
    ELSE LET pts == {position_low(c, N) : c \in FirstOf({h \in iter_hull(g) : ~ChunkAny(g, h, N)})}
             fall == {find_empty_point_in_chunk(g.set, c, N) : c \in FirstOf({h \in iter_hull(g) : ChunkAny(g, h, N)})}
         IN IF pts # {} THEN pts
            ELSE IF fall # {} THEN fall
            ELSE {None}

-----------------------------------------------------------------------------
(* Inputs *)

Sphere(c, r) ==
    {p \in {<<c[1] + i, c[2] + j, c[3] + k>> : i \in -r..r, j \in -r..r, k \in -r..r} : Dist1(p, c) = r}

Models ==
    {{}, {<<0, 0, 0>>}, {<<0, 0, 0>>, <<1, 0, 0>>}, {<<0, 0, 0>>, <<2, 1, 0>>},
     Sphere(<<1, 1, 1>>, 1), Sphere(<<2, 2, 2>>, 2)}

(* the shell get_crust starts from: the voxelized model, padded one ring *)
InitialCrust(N, m) == pad_chunks(SetPoints(EmptyGrid, m, N))

NoComponents == [chunks |-> {}, cells |-> <<>>]

-----------------------------------------------------------------------------
(* get_crust *)

Init ==
    /\ chunk_size \in ChunkSizes
    /\ max_steps \in 0..MaxSteps
    /\ revert_steps \in 0..MaxRevert
    /\ model \in Models
    /\ crust = InitialCrust(chunk_size, model)
    /\ last_crust = <<crust>>
    /\ last_count = 0
    /\ step = 0
    /\ components = NoComponents
    /\ fill_position = None
    /\ color = 2
    /\ returned = EmptyGrid
    /\ pc = "loop"
    /\ DiffIdle /\ IterIdle /\ DictIdle /\ FloodIdle

(* lines 115-130: the head of the loop and the set-up of a labeling pass *)
BeginStep ==
    /\ pc = "loop"
    /\ step < max_steps
    /\ components' = astype_int(crust, chunk_size)
    /\ fill_position' \in points_on_chunk_hull(crust, chunk_size)
    /\ color' = 2
    /\ pc' = "fill"
    /\ UNCHANGED <<chunk_size, max_steps, revert_steps, model, crust, last_crust,
                   last_count, step, returned>>
    /\ UNCHANGED <<diffVars, iterVars, dictVars, floodVars>>

(* line 149: the budget is spent *)
Exhausted ==
    /\ pc = "loop"
    /\ step >= max_steps
    /\ returned' = crust
    /\ pc' = "EXHAUSTED"
    /\ UNCHANGED <<chunk_size, max_steps, revert_steps, model, crust, last_crust,
                   last_count, step, components, fill_position, color>>
    /\ UNCHANGED <<diffVars, iterVars, dictVars, floodVars>>

(* an iteration of fill that tests the mask only after the flood fill and
   the write of the label *)
FillIterChecksLate ==
    /\ pc = "fill"
    /\ fill_position # None
    /\ \E fill_mask \in flood_fill_closed(fill_position, mask_empty(components)) :
          /\ components' = SetLabel(components, fill_mask, color)
          /\ fill_position' \in find_empty_fill_position(components', chunk_size)
          /\ IF mask_empty(components) = {}
             THEN color' = color /\ pc' = "ValueError"
             ELSE IF color > max_color
                  THEN color' = color /\ pc' = "decide"
                  ELSE color' = color + 1 /\ pc' = "fill"
    /\ UNCHANGED <<chunk_size, max_steps, revert_steps, model, crust, last_crust,
                   last_count, step, returned>>
    /\ UNCHANGED <<diffVars, iterVars, dictVars, floodVars>>

(* lines 80-101: one iteration of the loop of fill *)
FillIter ==
    /\ pc = "fill"
    /\ fill_position # None
    /\ IF mask_empty(components) = {}
       THEN /\ pc' = "ValueError"
            /\ UNCHANGED <<components, fill_position, color>>
       ELSE \E fill_mask \in (IF components.cells[fill_position] = 0
                              THEN {flood_fill_at(fill_position, mask_empty(components))}
                              ELSE flood_fill_closed(fill_position, mask_empty(components))) :
              /\ components' = SetLabel(components, fill_mask, color)
              /\ fill_position' \in find_empty_fill_position(components', chunk_size)
              /\ IF color > max_color
                 THEN color' = color /\ pc' = "decide"
                 ELSE color' = color + 1 /\ pc' = "fill"
    /\ UNCHANGED <<chunk_size, max_steps, revert_steps, model, crust, last_crust,
                   last_count, step, returned>>
    /\ UNCHANGED <<diffVars, iterVars, dictVars, floodVars>>

(* line 80, 102: the loop of fill ends on fill_position is None *)
FillExit ==
    /\ pc = "fill"
    /\ fill_position = None
    /\ pc' = "decide"
    /\ UNCHANGED <<chunk_size, max_steps, revert_steps, model, crust, last_crust,
                   last_count, step, components, fill_position, color, returned>>
    /\ UNCHANGED <<diffVars, iterVars, dictVars, floodVars>>

(* a push that never drops an entry *)
PushNeverEvicts(hist, g, cap) == Append(hist, g)

(* a push that drops the newest entry instead of the oldest *)
PushDropsNewest(hist, g, cap) ==
    LET h == Append(hist, g)
    IN IF Len(h) > cap THEN SubSeq(h, 1, Len(h) - 1) ELSE h

(* lines 145-147: push the shell, drop the oldest entry over capacity *)
Push(hist, g, cap) ==
    LET h == Append(hist, g)
    IN IF Len(h) > cap THEN Tail(h) ELSE h

(* a count of the filled components only, without the shell *)
count_components(c) == c - 2

(* line 135: count = color - 1 *)
count_of(c) == c - 1

(* a step that pushes and dilates before it tests the count *)
DecideDilatesFirst ==
    /\ pc = "decide"
    /\ last_count' = count_of(color)
    /\ last_crust' = Push(last_crust, crust, revert_steps)
    /\ crust' = dilate(crust, chunk_size)
    /\ IF count_of(color) = 2
       THEN returned' = last_crust'[1] /\ pc' = "CONVERGED" /\ step' = step
       ELSE returned' = returned /\ pc' = "loop" /\ step' = step + 1
    /\ components' = NoComponents
    /\ fill_position' = None
    /\ color' = 2
    /\ UNCHANGED <<chunk_size, max_steps, revert_steps, model>>
    /\ UNCHANGED <<diffVars, iterVars, dictVars, floodVars>>

(* lines 135-148: count, the convergence test, push and dilation *)
Decide ==
    /\ pc = "decide"
    /\ LET count == count_of(color)
       IN IF count = 2
          THEN /\ returned' = last_crust[1]
               /\ pc' = "CONVERGED"
               /\ UNCHANGED <<crust, last_crust, last_count, step>>
          ELSE /\ last_count' = count
               /\ last_crust' = Push(last_crust, crust, revert_steps)
               /\ crust' = dilate(crust, chunk_size)
               /\ step' = step + 1
               /\ pc' = "loop"
               /\ UNCHANGED returned
    /\ components' = NoComponents
    /\ fill_position' = None
    /\ color' = 2
    /\ UNCHANGED <<chunk_size, max_steps, revert_steps, model>>
    /\ UNCHANGED <<diffVars, iterVars, dictVars, floodVars>>

Next == BeginStep \/ Exhausted \/ FillIter \/ FillExit \/ Decide

Spec == Init /\ [][Next]_vars

-----------------------------------------------------------------------------
(* Properties of get_crust *)

Max(a, b) == IF a >= b THEN a ELSE b

Min(a, b) == IF a <= b THEN a ELSE b

(* the shell of generation k: the initial padded shell dilated k times *)
RECURSIVE Generation(_)
Generation(k) ==
    IF k = 0 THEN InitialCrust(chunk_size, model)
    ELSE dilate(Generation(k - 1), chunk_size)

(* the labels other than 0 that a label grid holds *)
LabelsFound(comp) == {comp.cells[p] : p \in DOMAIN comp.cells} \ {0}

(* the voxels of the resident chunks of a grid that are not in its set *)
Complement(g, N) == Resident(g.chunks, N) \ g.set

(* the number of 6-connected components of a set of voxels *)
RECURSIVE CountComponents(_)
CountComponents(open) ==
    IF open = {} THEN 0
    ELSE 1 + CountComponents(open \ flood_fill_at(CHOOSE p \in open : TRUE, open))

(* C1, as stated: get_crust converging at step s >= 1 returns the shell of
   generation s-1, never an older one. *)
C1_ReturnsPreviousGeneration ==
    (pc = "CONVERGED" /\ step >= 1) => returned = Generation(step - 1)

(* C1, amended: get_crust converging at step s >= 1 returns the oldest entry
   of the history, the shell of generation max(0, s - max(1, revert_steps)). *)
C1_ReturnsOldestSurviving ==
    (pc = "CONVERGED" /\ step >= 1)
        => returned = Generation(Max(0, step - Max(1, revert_steps)))

C1_Witness ==
    pc = "CONVERGED" /\ step >= 2 /\ revert_steps >= 2 /\ returned # Generation(step - 1)

(* C2: when the step budget is spent get_crust returns the most recent
   history snapshot if the history holds an entry, the dilated shell only
   if it holds none. *)
C2_ExhaustedReturnsSnapshot ==
    pc = "EXHAUSTED"
        => returned = (IF Len(last_crust) >= 1 THEN last_crust[Len(last_crust)] ELSE crust)

(* C3: a step takes the CONVERGED exit exactly when its labeling found the
   two labels 1 (shell) and 2 (one filled region); otherwise it pushes the
   shell to the history, dilates it and goes on to the next step. *)
C3_ConvergedIffTwoLabels ==
    [][pc = "decide"
        => /\ (pc' = "CONVERGED") <=> (LabelsFound(components) = {1, 2})
           /\ pc' # "CONVERGED"
                => /\ pc' = "loop"
                   /\ last_crust'[Len(last_crust')] = crust
                   /\ crust' = dilate(crust, chunk_size)
                   /\ step' = step + 1]_vars

C3_Witness == pc = "CONVERGED" /\ step >= 1 /\ last_count > 2

(* C4, as stated: the shell whose labeling ends get_crust in CONVERGED splits
   the other voxels into exactly two 6-connected components. *)
C4_TwoComplementComponents ==
    pc = "CONVERGED" => CountComponents(Complement(crust, chunk_size)) = 2

(* C4, amended: the shell whose labeling ends get_crust in CONVERGED leaves
   the other voxels of the resident chunks as one non-empty 6-connected
   component; or, when the seed was a shell voxel handed out by the fallback
   of points_on_chunk_hull, as components that all touch that voxel. *)
C4_OneComplementComponent ==
    pc = "CONVERGED"
        => LET open == Complement(crust, chunk_size)
           IN \/ CountComponents(open) = 1
              \/ /\ open # {}
                 /\ \E s \in points_on_chunk_hull(crust, chunk_size) \cap crust.set :
                        open \subseteq Grow({s}, {s}, open)

C4_Witness ==
    pc = "CONVERGED" /\ step >= 1 /\ CountComponents(Complement(crust, chunk_size)) = 1

(* C5: when the first labeling pass finds exactly the labels 1 and 2,
   get_crust returns at once: no dilation has been made and the grid
   returned is the initial padded shell. *)
C5_FirstPassConverges ==
    [][(pc = "decide" /\ step = 0 /\ LabelsFound(components) = {1, 2})
        => /\ pc' = "CONVERGED"
           /\ crust' = InitialCrust(chunk_size, model)
           /\ returned' = InitialCrust(chunk_size, model)]_vars

C5_Witness == pc = "CONVERGED" /\ step = 0 /\ max_steps >= 1 /\ returned.set = model

(* C6: get_crust runs at most max_steps labeling passes of boundedly many
   flood fills each, and a run that has left the loop and the labeling has
   reached CONVERGED or EXHAUSTED. *)
C6_ReachesConvergedOrExhausted ==
    /\ step <= max_steps
    /\ color <= max_color + 1
    /\ pc \notin {"loop", "fill", "decide"} => pc \in {"CONVERGED", "EXHAUSTED"}

(* C7: a model without points is rejected: no labeling pass is run for it
   and no grid is returned. *)
C7_EmptyModelRejected ==
    model = {} => pc \notin {"fill", "decide", "CONVERGED", "EXHAUSTED"}

(* C8: what get_crust returns carries a status that tells CONVERGED from
   EXHAUSTED. *)
C8_ResultCarriesStatus ==
    pc \in {"CONVERGED", "EXHAUSTED"}
        => ("status" \in DOMAIN returned /\ returned.status = pc)

(* C9, as stated: the history holds at most revert_steps grids. *)
C9_HistoryWithinCapacity == Len(last_crust) <= revert_steps

(* C9, amended: the history holds at most max(1, revert_steps) grids (the
   list is never empty); it holds the most recent generations in generation
   order, so the entry dropped on overflow is the oldest. *)
C9_HistoryBoundedFifo ==
    /\ Len(last_crust) = Min(step + 1, Max(1, revert_steps))
    /\ \A i \in 1..Len(last_crust) :
            last_crust[i] = Generation(Max(0, step - 1 - (Len(last_crust) - i)))

C9_Witness ==
    revert_steps = 2 /\ step = 3 /\ Len(last_crust) = 2 /\ last_crust[1] # last_crust[2]

(* C10: every seed handed to flood_fill_at is open in the mask handed over
   with it. *)
C10_SeedOpen ==
    (pc = "fill" /\ fill_position # None /\ mask_empty(components) # {})
        => components.cells[fill_position] = 0

-----------------------------------------------------------------------------
(* get_diffusion *)

(* the voxels crust and model are drawn from: a row of three, which lies in
   three chunks of size 1 and in two chunks of size 2 *)
DiffVoxels == {<<0, 0, 0>>, <<1, 0, 0>>, <<2, 0, 0>>}

(* Field values are kept as integers in units of 1 / Scale, so that every
   division by 7 of the model's runs is exact: a value depends on at most
   one division per chunk and iteration.  Scale stands for 1.0. *)
Scale == 7 ^ (Cardinality(DiffVoxels) * MaxIterations)

(* a grid read: the value of the resident chunk, or the fill value 1.0 *)
Value(g, p, N) == IF ChunkIndex(p, N) \in g.chunks THEN g.cells[p] ELSE Scale

(* lines 153-155: ChunkGrid(fill_value=1.0); distance[crust] = 1.0;
   distance[model] = 0.0.  Chunks are created on first write. *)
InitialDistance(crust_, model_, N) ==
    LET cs == {ChunkIndex(p, N) : p \in crust_ \cup model_}
    IN [chunks |-> cs,
        cells |-> [p \in Resident(cs, N) |-> IF p \in model_ THEN 0 ELSE Scale]]

(* lines 169-170: chunk.to_array() == 0 over all chunks *)
ZeroPoints(g) == {p \in DOMAIN g.cells : g.cells[p] = 0}

(* lines 156-165, 173: the 7-point cross with weights 1/7 applied to the
   chunk padded by one voxel from the grid, mode 'valid' *)
convolve(g, p, N) ==
    (Value(g, p, N)
     + Value(g, Add(p, <<1, 0, 0>>), N) + Value(g, Add(p, <<-1, 0, 0>>), N)
     + Value(g, Add(p, <<0, 1, 0>>), N) + Value(g, Add(p, <<0, -1, 0>>), N)
     + Value(g, Add(p, <<0, 0, 1>>), N) + Value(g, Add(p, <<0, 0, -1>>), N)) \div 7

(* lines 172-176: the new array of chunk c, computed from the grid as it is
   now, with the snapshot's zeros written back, stored in place *)
set_array(g, c, zeros, N) ==
    [g EXCEPT !.cells = [p \in DOMAIN g.cells |->
        IF p \in ChunkVoxels(c, N)
        THEN IF p \in zeros THEN 0 ELSE convolve(g, p, N)
        ELSE g.cells[p]]]

(* the same without line 175 *)
set_array_unpinned(g, c, zeros, N) ==
    [g EXCEPT !.cells = [p \in DOMAIN g.cells |->
        IF p \in ChunkVoxels(c, N) THEN convolve(g, p, N) ELSE g.cells[p]]]

(* line 177: distance[crust == False] = 1.0 *)
ResetOutside(g, crust_) ==
    [g EXCEPT !.cells = [p \in DOMAIN g.cells |->
        IF p \in crust_ THEN g.cells[p] ELSE Scale]]

(* a reset through the mask crust == True *)
ResetInside(g, crust_) ==
    [g EXCEPT !.cells = [p \in DOMAIN g.cells |->
        IF p \in crust_ THEN Scale ELSE g.cells[p]]]

DiffInit ==
    /\ d_chunk_size \in ChunkSizes
    /\ d_crust \in SUBSET DiffVoxels
    /\ d_model \in SUBSET DiffVoxels
    /\ iterations \in 0..MaxIterations
    /\ distance = InitialDistance(d_crust, d_model, d_chunk_size)
    /\ d_i = 0
    /\ points_per_chunk = {}
    /\ todo = {}
    /\ dpc = "loop"
    /\ CrustIdle /\ IterIdle /\ DictIdle /\ FloodIdle

(* lines 167-170: an iteration begins with the snapshot of the zeros *)
Snapshot ==
    /\ dpc = "loop"
    /\ d_i < iterations
    /\ points_per_chunk' = ZeroPoints(distance)
    /\ IF distance.chunks = {}
       THEN d_i' = d_i + 1 /\ dpc' = "loop" /\ todo' = {}
       ELSE d_i' = d_i /\ dpc' = "sweep" /\ todo' = distance.chunks
    /\ UNCHANGED <<d_chunk_size, d_crust, d_model, iterations, distance>>
    /\ UNCHANGED <<crustVars, iterVars, dictVars, floodVars>>

(* an iteration that drops the pin of line 175 *)
SweepChunkUnpinned ==
    /\ dpc = "sweep"
    /\ \E c \in todo :
          /\ distance' = set_array_unpinned(distance, c, points_per_chunk, d_chunk_size)
          /\ todo' = todo \ {c}
          /\ IF todo' = {}
             THEN d_i' = d_i + 1 /\ dpc' = "loop"
             ELSE d_i' = d_i /\ dpc' = "sweep"
    /\ UNCHANGED <<d_chunk_size, d_crust, d_model, iterations, points_per_chunk>>
    /\ UNCHANGED <<crustVars, iterVars, dictVars, floodVars>>

(* lines 171-176: the next chunk of the loop over distance.chunks; the order
   of the chunks is the order of the chunk dictionary, which the sources at
   hand do not determine *)
SweepChunk ==
    /\ dpc = "sweep"
    /\ \E c \in todo :
          /\ distance' = set_array(distance, c, points_per_chunk, d_chunk_size)
          /\ todo' = todo \ {c}
          /\ IF todo' = {}
             THEN d_i' = d_i + 1 /\ dpc' = "loop"
             ELSE d_i' = d_i /\ dpc' = "sweep"
    /\ UNCHANGED <<d_chunk_size, d_crust, d_model, iterations, points_per_chunk>>
    /\ UNCHANGED <<crustVars, iterVars, dictVars, floodVars>>

(* a return that resets the crust instead of its complement *)
FinishResetsCrust ==
    /\ dpc = "loop"
    /\ d_i = iterations
    /\ distance' = ResetInside(distance, d_crust)
    /\ dpc' = "done"
    /\ UNCHANGED <<d_chunk_size, d_crust, d_model, iterations, d_i, points_per_chunk, todo>>
    /\ UNCHANGED <<crustVars, iterVars, dictVars, floodVars>>

(* lines 177-178 *)
Finish ==
    /\ dpc = "loop"
    /\ d_i = iterations
    /\ distance' = ResetOutside(distance, d_crust)
    /\ dpc' = "done"
    /\ UNCHANGED <<d_chunk_size, d_crust, d_model, iterations, d_i, points_per_chunk, todo>>
    /\ UNCHANGED <<crustVars, iterVars, dictVars, floodVars>>

DiffNext == Snapshot \/ SweepChunk \/ Finish

DiffSpec == DiffInit /\ [][DiffNext]_vars

(* one Jacobi iteration: every voxel from the field f, zeros kept *)
JacobiStep(f, N) ==
    [f EXCEPT !.cells = [p \in DOMAIN f.cells |->
        IF f.cells[p] = 0 THEN 0 ELSE convolve(f, p, N)]]

RECURSIVE JacobiField(_, _, _, _)
JacobiField(k, crust_, model_, N) ==
    IF k = 0 THEN InitialDistance(crust_, model_, N)
    ELSE JacobiStep(JacobiField(k - 1, crust_, model_, N), N)

(* C12 as stated: every model voxel is 0.0 in the returned grid. *)
C12_ModelVoxelsZero ==
    dpc = "done" => \A p \in d_model : Value(distance, p, d_chunk_size) = 0

(* C12: in the grid get_diffusion returns, every model voxel at which the
   crust is True is 0.0; and when an iteration ends, every voxel that was 0
   when it began is 0. *)
C12_ModelInCrustZero ==
    /\ dpc = "done" =>
          \A p \in d_model \cap d_crust : Value(distance, p, d_chunk_size) = 0
    /\ (dpc = "loop" /\ d_i > 0) =>
          \A p \in points_per_chunk : Value(distance, p, d_chunk_size) = 0

C12_Witness ==
    /\ dpc = "done" /\ iterations = MaxIterations /\ iterations > 0
    /\ d_model \cap d_crust # {}
    /\ \E p \in d_crust : Value(distance, p, d_chunk_size) \notin {0, Scale}

(* C13: in the grid get_diffusion returns, every voxel where the crust is
   False is 1.0, whatever the iterations wrote there. *)
C13_OutsideCrustOne ==
    dpc = "done" =>
       \A p \in (DOMAIN distance.cells \cup DiffVoxels) \ d_crust :
           Value(distance, p, d_chunk_size) = Scale

C13_Witness ==
    /\ dpc = "done" /\ iterations > 0
    /\ \E p \in d_model \ d_crust : Value(distance, p, d_chunk_size) = Scale
    /\ \E p \in d_crust : Value(distance, p, d_chunk_size) \notin {0, Scale}

(* C14: the field after an iteration is the Jacobi step of the field before
   it, whatever the order of the chunks: after d_i iterations the field is
   the d_i-th Jacobi iterate of the initial field. *)
C14_JacobiIteration ==
    dpc = "loop" =>
       distance = JacobiField(d_i, d_crust, d_model, d_chunk_size)

-----------------------------------------------------------------------------
(* ValueIter, PositionIter *)

(* An axis argument (SliceOpt): a slice, an int or None.  The fields of a
   slice are optional integers. *)
SliceArg(a, b, c) == [kind |-> "slice", start |-> a, stop |-> b, step |-> c]

IntArg(n) == [kind |-> "int", value |-> n]

NoneArg == [kind |-> "None"]

OptCoords == {None} \cup {Some(n) : n \in (-1)..MaxCoord}

OptSteps == {None} \cup {Some(n) : n \in 0..MaxStride}

XArgs ==
    {SliceArg(a, b, c) : a \in OptCoords, b \in OptCoords, c \in OptSteps}
        \cup {IntArg(n) : n \in (-1)..MaxCoord} \cup {NoneArg}

YArgs == {IntArg(0), SliceArg(None, None, None)}

(* lines 11-14; s + 1 raises TypeError when s is None *)
to_slice(s) ==
    IF s.kind = "slice" THEN s
    ELSE SliceArg(Some(s.value), Some(s.value + 1), None)

(* line 21: s.step or 1 *)
StepOf(s) == IF s.step = None \/ s.step = Some(0) THEN 1 ELSE s.step[1]

(* line 22 *)
StartOf(s, low) == IF s.start = None THEN low ELSE s.start[1]

(* line 23 *)
StopOf(s, high) == IF s.stop = None THEN high ELSE s.stop[1]

(* a clip that returns the start and stop of the slice as they are *)
indices_unclipped(s, low, high) ==
    [start |-> StartOf(s, low), stop |-> StopOf(s, high), step |-> StepOf(s)]

(* lines 19-26: ValueIter._indices *)
indices(s, low, high) ==
    [start |-> Max(StartOf(s, low), low + (StartOf(s, low) % StepOf(s))),
     stop |-> Min(StopOf(s, high), high),
     step |-> StepOf(s)]

(* lines 34-35, 42-43: range(start, stop, step) with step >= 1 *)
range(v) ==
    LET n == IF v.stop > v.start THEN (v.stop - v.start + v.step - 1) \div v.step ELSE 0
    IN [k \in 1..n |-> v.start + (k - 1) * v.step]

(* lines 45-47: max(0, ds // step, ds % step > 0); True counts as 1 *)
len(v) ==
    LET ds == v.stop - v.start
    IN Max(Max(0, ds \div v.step), IF ds % v.step > 0 THEN 1 ELSE 0)

(* lines 105-109: the three nested loops, x outermost *)
positions(it) ==
    LET xs == range(it[1])
        ys == range(it[2])
        zs == range(it[3])
        ny == Len(ys)
        nz == Len(zs)
    IN [k \in 1..(Len(xs) * ny * nz) |->
          <<xs[((k - 1) \div (ny * nz)) + 1],
            ys[(((k - 1) \div nz) % ny) + 1],
            zs[((k - 1) % nz) + 1]>>]

IterInit ==
    /\ \E x \in XArgs, y \in YArgs : v_slice = <<x, y, IntArg(0)>>
    /\ \E lx \in 0..MaxHigh, hx \in 0..MaxHigh, hy \in 0..1 :
          /\ lx <= hx
          /\ v_low = <<lx, 0, 0>>
          /\ v_high = <<hx, hy, 1>>
    /\ v_iter = None
    /\ v_yield = None
    /\ v_len = None
    /\ vpc = "new"
    /\ CrustIdle /\ DiffIdle /\ DictIdle /\ FloodIdle

(* lines 86-92 and 28-32: PositionIter(x, y, z, low, high) builds its three
   ValueIter *)
Construct ==
    /\ vpc = "new"
    /\ IF \E a \in 1..3 : v_slice[a].kind = "None"
       THEN vpc' = "TypeError" /\ v_iter' = v_iter
       ELSE /\ vpc' = "made"
            /\ v_iter' = [a \in 1..3 |-> indices(to_slice(v_slice[a]), v_low[a], v_high[a])]
    /\ UNCHANGED <<v_slice, v_low, v_high, v_yield, v_len>>
    /\ UNCHANGED <<crustVars, diffVars, dictVars, floodVars>>

(* lines 105-109: PositionIter.__iter__, run to its end *)
Iterate ==
    /\ vpc = "made"
    /\ v_yield = None
    /\ v_yield' = Some(positions(v_iter))
    /\ UNCHANGED <<v_slice, v_low, v_high, v_iter, v_len, vpc>>
    /\ UNCHANGED <<crustVars, diffVars, dictVars, floodVars>>

(* lines 111-116: PositionIter.__len__ and shape *)
Length ==
    /\ vpc = "made"
    /\ v_len = None
    /\ v_len' = Some([len |-> len(v_iter[1]) * len(v_iter[2]) * len(v_iter[3]),
                      shape |-> <<len(v_iter[1]), len(v_iter[2]), len(v_iter[3])>>])
    /\ UNCHANGED <<v_slice, v_low, v_high, v_iter, v_yield, vpc>>
    /\ UNCHANGED <<crustVars, diffVars, dictVars, floodVars>>

IterNext == Construct \/ Iterate \/ Length

IterSpec == IterInit /\ [][IterNext]_vars

(* the coordinates of [low, high) an axis argument asks for *)
Asked(s, low, high) ==
    IF s.kind = "None" THEN low..(high - 1)
    ELSE LET t == to_slice(s)
         IN {c \in low..(high - 1) :
               /\ c >= StartOf(t, low)
               /\ c < StopOf(t, high)
               /\ (c - StartOf(t, low)) % StepOf(t) = 0}

(* C15: on every axis the clipped triple has start >= low and stop <= high,
   and every coordinate the iteration yields lies in [low, high). *)
C15_ClippedWithinBounds ==
    vpc = "made" =>
       \A a \in 1..3 :
          /\ v_iter[a].start >= v_low[a]
          /\ v_iter[a].stop <= v_high[a]
          /\ v_iter[a].step >= 1
          /\ v_yield # None =>
                \A k \in 1..Len(v_yield[1]) :
                    v_yield[1][k][a] >= v_low[a] /\ v_yield[1][k][a] < v_high[a]

C15_Witness ==
    /\ vpc = "made" /\ v_yield # None /\ Len(v_yield[1]) >= 2
    /\ v_slice[1].kind = "slice" /\ v_slice[1].start # None /\ v_slice[1].stop # None
    /\ v_slice[1].start[1] < v_low[1] /\ v_slice[1].stop[1] > v_high[1]

(* C16: the clipped start of a slice with an explicit start is congruent to
   that start modulo the stride, and so is every yielded coordinate. *)
C16_StartCongruent ==
    (vpc = "made" /\ v_slice[1].kind = "slice" /\ v_slice[1].start # None) =>
       /\ (v_iter[1].start - v_slice[1].start[1]) % v_iter[1].step = 0
       /\ v_yield # None =>
             \A k \in 1..Len(v_yield[1]) :
                 (v_yield[1][k][1] - v_slice[1].start[1]) % v_iter[1].step = 0

(* C17: an axis that asks for no coordinate of [low, high) is constructed
   without error, yields nothing and reports length 0. *)
C17_EmptyRangeLengthZero ==
    (vpc # "new" /\ \E a \in 1..3 : Asked(v_slice[a], v_low[a], v_high[a]) = {}) =>
       /\ vpc = "made"
       /\ v_yield # None => v_yield[1] = <<>>
       /\ v_len # None =>
             /\ v_len[1].len = 0
             /\ \A a \in 1..3 :
                   Asked(v_slice[a], v_low[a], v_high[a]) = {} => v_len[1].shape[a] = 0

-----------------------------------------------------------------------------
(* IndexDict, MinMaxCheck *)

(* the keys and values the map is used with *)
DictKeys == {<<0, 0, 0>>, <<1, 0, 0>>, <<0, 1, 0>>}

(* "None" stands for Python's None, which can be stored like any value *)
DictValues == {"a", "b", "None"}

(* A coordinate argument: a tuple or a list of integers.  Those with two or
   four components are the malformed ones. *)
Coord(f, c) == [form |-> f, c |-> c]

Coords ==
    {Coord("tuple", k) : k \in DictKeys}
        \cup {Coord("list", <<0, 0, 0>>), Coord("tuple", <<0, 1>>),
              Coord("list", <<0, 1>>), Coord("tuple", <<0, 0, 0, 1>>)}

(* index_dict.py 42: item.shape != (3,) *)
Malformed(item) == Len(item.c) # 3

(* what a call left behind: its name, whether its coordinate was malformed,
   the exception or "ok", the value returned, whether minmax rescanned the
   keys, the coordinate given and whether the factory was called *)
Result(o, item, e, r) ==
    [op |-> o, bad |-> Malformed(item), out |-> e, ret |-> r, rescan |-> FALSE,
     arg |-> item.c, called |-> FALSE]

(* self._data.get(index, None) *)
dict_get(d, k) == IF k \in DOMAIN d THEN d[k] ELSE "None"

(* componentwise minimum and maximum: np.min / np.max over axis 0 *)
CMin(p, q) == <<Min(p[1], q[1]), Min(p[2], q[2]), Min(p[3], q[3])>>

CMax(p, q) == <<Max(p[1], q[1]), Max(p[2], q[2]), Max(p[3], q[3])>>

(* data_utils.py 164-169: MinMaxCheck.update over a non-empty set of keys *)
update(keys) ==
    LET lo(a) == CHOOSE m \in {k[a] : k \in keys} : \A k \in keys : m <= k[a]
        hi(a) == CHOOSE m \in {k[a] : k \in keys} : \A k \in keys : m >= k[a]
    IN <<<<lo(1), lo(2), lo(3)>>, <<hi(1), hi(2), hi(3)>>>>

(* an add that keeps the first index it was given *)
add_first_only(mn, mx, index) ==
    <<IF mn = None THEN index ELSE mn, IF mx = None THEN index ELSE mx>>

(* data_utils.py 171-179: MinMaxCheck.add *)
add(mn, mx, index) ==
    <<IF mn = None THEN index ELSE CMin(mn, index),
      IF mx = None THEN index ELSE CMax(mx, index)>>

(* self._data[index] = value *)
Put(d, k, v) == [j \in DOMAIN d \cup {k} |-> IF j = k THEN v ELSE d[j]]

(* del self._data[index] *)
Remove(d, k) == [j \in DOMAIN d \ {k} |-> d[j]]

(* lines 96-99 (set) and the insertion of setdefault and create_if_absent:
   the value is stored and the bounds take the index in *)
Insert(o, item, v) ==
    /\ data' = Put(data, item.c, v)
    /\ mm_min' = add(mm_min, mm_max, item.c)[1]
    /\ mm_max' = add(mm_min, mm_max, item.c)[2]
    /\ result' = [Result(o, item, "ok", v) EXCEPT !.called = (o = "create_if_absent")]
    /\ UNCHANGED <<dirty, only_inserts, deleted_since_query>>

(* a call that raises or only reads *)
Return(o, item, e, r) ==
    /\ result' = Result(o, item, e, r)
    /\ UNCHANGED <<data, mm_min, mm_max, dirty, only_inserts, deleted_since_query>>

DictInit == CrustIdle /\ DiffIdle /\ IterIdle /\ DictIdle /\ FloodIdle

(* lines 46-47 *)
Get ==
    /\ \E item \in Coords :
          IF Malformed(item) THEN Return("get", item, "IndexError", "None")
          ELSE Return("get", item, "ok",
                      IF item.c \in DOMAIN data THEN data[item.c] ELSE "None")
    /\ UNCHANGED <<crustVars, diffVars, iterVars, floodVars>>

(* lines 77-94 and 49-54: d[item] with item a tuple or a list of integers *)
GetItem ==
    /\ \E item \in Coords :
          IF Malformed(item)
          THEN Return("getitem", item,
                      IF item.form = "tuple" THEN "KeyError" ELSE "AssertionError", "None")
          ELSE IF item.c \in DOMAIN data
               THEN Return("getitem", item, "ok", data[item.c])
               ELSE Return("getitem", item, "KeyError", "None")
    /\ UNCHANGED <<crustVars, diffVars, iterVars, floodVars>>

(* lines 96-99 *)
Set ==
    /\ \E item \in Coords, v \in DictValues :
          IF Malformed(item) THEN Return("set", item, "IndexError", "None")
          ELSE Insert("set", item, v)
    /\ UNCHANGED <<crustVars, diffVars, iterVars, floodVars>>

(* lines 101-102 *)
SetItem ==
    /\ \E item \in Coords, v \in DictValues :
          IF Malformed(item) THEN Return("setitem", item, "IndexError", "None")
          ELSE Insert("setitem", item, v)
    /\ UNCHANGED <<crustVars, diffVars, iterVars, floodVars>>

(* lines 104-105 *)
Contains ==
    /\ \E item \in Coords :
          IF Malformed(item) THEN Return("contains", item, "IndexError", "None")
          ELSE Return("contains", item, "ok",
                      IF item.c \in DOMAIN data THEN "True" ELSE "False")
    /\ UNCHANGED <<crustVars, diffVars, iterVars, floodVars>>

(* lines 107-114 *)
SetDefault ==
    /\ \E item \in Coords, default \in DictValues :
          IF Malformed(item) THEN Return("setdefault", item, "IndexError", "None")
          ELSE IF dict_get(data, item.c) # "None"
               THEN Return("setdefault", item, "ok", data[item.c])
               ELSE Insert("setdefault", item, default)
    /\ UNCHANGED <<crustVars, diffVars, iterVars, floodVars>>

(* lines 116-123: c = self._data.get(index, None); if c is None: ... *)
CreateIfAbsent ==
    /\ \E item \in Coords, made \in DictValues :
          IF Malformed(item) THEN Return("create_if_absent", item, "IndexError", "None")
          ELSE IF dict_get(data, item.c) # "None"
               THEN Return("create_if_absent", item, "ok", data[item.c])
               ELSE Insert("create_if_absent", item, made)
    /\ UNCHANGED <<crustVars, diffVars, iterVars, floodVars>>

(* a deletion that leaves the dirty flag alone *)
DelItemKeepsClean ==
    /\ \E item \in Coords :
          IF Malformed(item) THEN Return("delitem", item, "IndexError", "None")
          ELSE IF item.c \notin DOMAIN data
               THEN Return("delitem", item, "KeyError", "None")
               ELSE /\ data' = Remove(data, item.c)
                    /\ only_inserts' = FALSE
                    /\ deleted_since_query' = TRUE
                    /\ result' = Result("delitem", item, "ok", "None")
                    /\ UNCHANGED <<mm_min, mm_max, dirty>>
    /\ UNCHANGED <<crustVars, diffVars, iterVars, floodVars>>

(* lines 23-26 *)
DelItem ==
    /\ \E item \in Coords :
          IF Malformed(item) THEN Return("delitem", item, "IndexError", "None")
          ELSE IF item.c \notin DOMAIN data
               THEN Return("delitem", item, "KeyError", "None")
               ELSE /\ data' = Remove(data, item.c)
                    /\ dirty' = TRUE
                    /\ only_inserts' = FALSE
                    /\ deleted_since_query' = TRUE
                    /\ result' = Result("delitem", item, "ok", "None")
                    /\ UNCHANGED <<mm_min, mm_max>>
    /\ UNCHANGED <<crustVars, diffVars, iterVars, floodVars>>

(* lines 28-33: the key goes to dict.pop as it is; a list is unhashable *)
Pop ==
    /\ \E item \in Coords :
          IF item.form = "list" THEN Return("pop", item, "TypeError", "None")
          ELSE IF item.c \notin DOMAIN data
               THEN Return("pop", item, "ok", "None")
               ELSE /\ data' = Remove(data, item.c)
                    /\ dirty' = TRUE
                    /\ only_inserts' = FALSE
                    /\ deleted_since_query' = TRUE
                    /\ result' = Result("pop", item, "ok", data[item.c])
                    /\ UNCHANGED <<mm_min, mm_max>>
    /\ UNCHANGED <<crustVars, diffVars, iterVars, floodVars>>

(* lines 19-21 and data_utils.py 159-162 *)
Clear ==
    /\ data' = <<>>
    /\ mm_min' = None
    /\ mm_max' = None
    /\ dirty' = FALSE
    /\ only_inserts' = FALSE
    /\ deleted_since_query' = FALSE
    /\ result' = [op |-> "clear", bad |-> FALSE, out |-> "ok", ret |-> "None",
                  rescan |-> FALSE, arg |-> None, called |-> FALSE]
    /\ UNCHANGED <<crustVars, diffVars, iterVars, floodVars>>

(* a minmax that answers (None, None) for a map emptied by deletions *)
MinMaxOfEmptied ==
    /\ IF dirty
       THEN IF DOMAIN data = {}
            THEN /\ result' = [op |-> "minmax", bad |-> FALSE, out |-> "ok",
                               ret |-> <<None, None>>, rescan |-> TRUE, arg |-> None, called |-> FALSE]
                 /\ mm_min' = None
                 /\ mm_max' = None
                 /\ dirty' = FALSE
                 /\ deleted_since_query' = FALSE
            ELSE /\ mm_min' = update(DOMAIN data)[1]
                 /\ mm_max' = update(DOMAIN data)[2]
                 /\ dirty' = FALSE
                 /\ deleted_since_query' = FALSE
                 /\ result' = [op |-> "minmax", bad |-> FALSE, out |-> "ok",
                               ret |-> update(DOMAIN data), rescan |-> TRUE, arg |-> None, called |-> FALSE]
       ELSE /\ result' = [op |-> "minmax", bad |-> FALSE, out |-> "ok",
                          ret |-> <<mm_min, mm_max>>, rescan |-> FALSE, arg |-> None, called |-> FALSE]
            /\ deleted_since_query' = FALSE
            /\ UNCHANGED <<mm_min, mm_max, dirty>>
    /\ UNCHANGED <<data, only_inserts>>
    /\ UNCHANGED <<crustVars, diffVars, iterVars, floodVars>>

(* lines 35-37 and data_utils.py 198-205: minmax() = safe(keys): update when
   dirty (which asserts that there are keys), then get *)
MinMax ==
    /\ IF dirty
       THEN IF DOMAIN data = {}
            THEN /\ result' = [op |-> "minmax", bad |-> FALSE, out |-> "AssertionError",
                               ret |-> "None", rescan |-> TRUE, arg |-> None, called |-> FALSE]
                 /\ UNCHANGED <<mm_min, mm_max, dirty, deleted_since_query>>
            ELSE /\ mm_min' = update(DOMAIN data)[1]
                 /\ mm_max' = update(DOMAIN data)[2]
                 /\ dirty' = FALSE
                 /\ deleted_since_query' = FALSE
                 /\ result' = [op |-> "minmax", bad |-> FALSE, out |-> "ok",
                               ret |-> update(DOMAIN data), rescan |-> TRUE, arg |-> None, called |-> FALSE]
       ELSE /\ result' = [op |-> "minmax", bad |-> FALSE, out |-> "ok",
                          ret |-> <<mm_min, mm_max>>, rescan |-> FALSE, arg |-> None, called |-> FALSE]
            /\ deleted_since_query' = FALSE
            /\ UNCHANGED <<mm_min, mm_max, dirty>>
    /\ UNCHANGED <<data, only_inserts>>
    /\ UNCHANGED <<crustVars, diffVars, iterVars, floodVars>>

(* the axis arguments sliced is called with *)
SlicedArgs ==
    {<<x, y, z>> : x \in {NoneArg, IntArg(0), SliceArg(Some(0), Some(2), None)},
                   y \in {NoneArg, IntArg(0)},
                   z \in {NoneArg, IntArg(0)}}

(* self._data.values(): the stored values in the order of the dictionary,
   which is the order of insertion and is not kept in the model *)
values(d) ==
    {[j \in 1..Cardinality(DOMAIN d) |-> d[ks[j]]] :
        ks \in {f \in [1..Cardinality(DOMAIN d) -> DOMAIN d] :
                   \A a, b \in 1..Cardinality(DOMAIN d) : a # b => f[a] # f[b]}}

(* lines 60-75: sliced(x, y, z, ignore_empty), iterated to its end.  With an
   axis given, minmax() is called and PositionIter is then called with the
   keywords length and offset, which PositionIter.__init__ (data_utils.py
   86) does not take: TypeError. *)
Sliced ==
    /\ \E a \in SlicedArgs, ignore_empty \in BOOLEAN :
          LET res(e, r) == [op |-> "sliced", bad |-> FALSE, out |-> e, ret |-> r,
                            rescan |-> FALSE, arg |-> <<a[1], a[2], a[3], ignore_empty>>,
                            called |-> FALSE]
          IN IF DOMAIN data = {}
             THEN /\ result' = res("ok", <<>>)
                  /\ UNCHANGED <<mm_min, mm_max, dirty, deleted_since_query>>
             ELSE IF a[1].kind = "None" /\ a[2].kind = "None" /\ a[3].kind = "None"
                  THEN /\ \E vs \in values(data) : result' = res("ok", vs)
                       /\ UNCHANGED <<mm_min, mm_max, dirty, deleted_since_query>>
                  ELSE /\ result' = [res("TypeError", <<>>) EXCEPT !.rescan = dirty]
                       /\ mm_min' = IF dirty THEN update(DOMAIN data)[1] ELSE mm_min
                       /\ mm_max' = IF dirty THEN update(DOMAIN data)[2] ELSE mm_max
                       /\ dirty' = FALSE
                       /\ deleted_since_query' = FALSE
    /\ UNCHANGED <<data, only_inserts>>
    /\ UNCHANGED <<crustVars, diffVars, iterVars, floodVars>>

DictNext ==
    \/ Get \/ GetItem \/ Set \/ SetItem \/ Contains \/ SetDefault
    \/ CreateIfAbsent \/ DelItem \/ Pop \/ Clear \/ MinMax \/ Sliced

DictSpec == DictInit /\ [][DictNext]_vars

(* the tight bounding box of a set of keys; (None, None) when there is none *)
BBox(keys) == IF keys = {} THEN <<None, None>> ELSE update(keys)

(* C18: as long as only insertions changed the map, the dirty flag is not
   set, the cached bounds are the bounding box of the stored keys, and
   minmax() returns it without a rescan. *)
C18_InsertOnlyBoundsExact ==
    only_inserts =>
       /\ ~dirty
       /\ <<mm_min, mm_max>> = BBox(DOMAIN data)
       /\ result.op = "minmax" =>
             result.out = "ok" /\ ~result.rescan /\ result.ret = BBox(DOMAIN data)

C18_Witness ==
    /\ only_inserts /\ result.op = "minmax"
    /\ Cardinality(DOMAIN data) >= 2
    /\ result.ret[1] \notin DOMAIN data /\ result.ret[2] \notin DOMAIN data

(* C19: after a successful deletion the dirty flag stays set until the next
   minmax(), insertions in between included, and on a non-empty map that
   minmax() rescans the keys and returns their bounding box. *)
C19_RescanAfterDeletion ==
    [][/\ deleted_since_query => dirty
       /\ (deleted_since_query /\ DOMAIN data # {} /\ result'.op = "minmax") =>
             /\ result'.out = "ok"
             /\ result'.rescan
             /\ result'.ret = BBox(DOMAIN data)
             /\ <<mm_min', mm_max'>> = BBox(DOMAIN data)
             /\ ~dirty']_vars

C19_Witness ==
    /\ result.op = "minmax" /\ result.rescan /\ result.out = "ok"
    /\ Cardinality(DOMAIN data) >= 2
    /\ ~only_inserts

(* C20: every operation that takes a coordinate fails with IndexError when
   the coordinate does not have exactly 3 components. *)
C20_MalformedRaisesIndexError ==
    (result.bad /\ result.op \in {"get", "set", "getitem", "setitem", "delitem",
                                  "contains", "setdefault", "create_if_absent"})
       => result.out = "IndexError"

(* C21: create_if_absent calls the factory and inserts its value only when
   the coordinate is not stored; when it is stored the factory is not called
   and the map is as it was; it returns the value stored at the coordinate
   after the call, and after an insertion the cached bounds include the
   coordinate. *)
C21_CreateOnlyIfAbsent ==
    [][(result'.op = "create_if_absent" /\ result'.out = "ok") =>
          LET k == result'.arg
          IN /\ k \in DOMAIN data => (~result'.called /\ data' = data)
             /\ k \notin DOMAIN data => result'.called
             /\ k \in DOMAIN data' /\ result'.ret = data'[k]
             /\ result'.called =>
                   /\ CMin(mm_min', k) = mm_min'
                   /\ CMax(mm_max', k) = mm_max']_vars

(* does the coordinate c lie in what an axis argument asks for *)
InAxis(s, c) ==
    \/ s.kind = "None"
    \/ s.kind = "int" /\ c = s.value
    \/ /\ s.kind = "slice"
       /\ s.start # None => (c >= s.start[1] /\ (c - s.start[1]) % StepOf(s) = 0)
       /\ s.stop # None => c < s.stop[1]

(* a finite set of positions in axis-major order: x outermost, z innermost *)
RECURSIVE AxisMajor(_)
AxisMajor(S) ==
    IF S = {} THEN <<>> ELSE <<LexMin(S)>> \o AxisMajor(S \ {LexMin(S)})

(* the values sliced has to yield: those of the positions of the bounding
   box of the keys that lie in the requested ranges, the absent ones left
   out or given as None *)
Requested(d, a) ==
    LET box == {<<x, y, z>> : x \in update(DOMAIN d)[1][1]..update(DOMAIN d)[2][1],
                             y \in update(DOMAIN d)[1][2]..update(DOMAIN d)[2][2],
                             z \in update(DOMAIN d)[1][3]..update(DOMAIN d)[2][3]}
        asked == {k \in box : InAxis(a[1], k[1]) /\ InAxis(a[2], k[2]) /\ InAxis(a[3], k[3])}
        ks == AxisMajor(IF a[4] THEN asked \cap DOMAIN d ELSE asked)
    IN [j \in 1..Len(ks) |-> dict_get(d, ks[j])]

(* C22: on a non-empty map, sliced with at least one axis given completes
   without error and yields the resident values of the requested ranges in
   axis-major order. *)
C22_SlicedYieldsRequested ==
    (/\ result.op = "sliced"
     /\ DOMAIN data # {}
     /\ \E a \in 1..3 : result.arg[a].kind # "None")
       => (result.out = "ok" /\ result.ret = Requested(data, result.arg))

(* C28: minmax() on a map that deletions emptied, the dirty flag set, fails
   with the assertion of MinMaxCheck.update and changes nothing; on an empty
   map whose dirty flag is not set (never filled or cleared) it returns
   (None, None). *)
C28_MinMaxOfEmptyMap ==
    [][/\ (deleted_since_query /\ DOMAIN data = {}) => dirty
       /\ (result'.op = "minmax" /\ DOMAIN data = {}) =>
             IF dirty
             THEN /\ result'.out = "AssertionError"
                  /\ <<data', mm_min', mm_max', dirty'>> = <<data, mm_min, mm_max, dirty>>
             ELSE result'.out = "ok" /\ result'.ret = <<None, None>>]_vars

C28_Witness ==
    /\ result.op = "minmax" /\ result.out = "AssertionError"
    /\ DOMAIN data = {} /\ dirty /\ mm_min # None

-----------------------------------------------------------------------------
(* flood_fill_at, step by step *)

(* the voxels masks and seeds are drawn from: a 3 x 2 plate and one voxel
   above it *)
FloodVoxels ==
    {<<x, y, 0>> : x \in 0..2, y \in 0..1} \cup {<<0, 0, 1>>}

FloodInit ==
    /\ f_mask \in SUBSET FloodVoxels
    /\ f_position \in f_mask
    /\ f_frontier = {f_position}
    /\ f_visited = {f_position}
    /\ fpc = "fill"
    /\ CrustIdle /\ DiffIdle /\ IterIdle /\ DictIdle

(* an expansion that takes only the first open neighbour *)
VisitFirstNeighbour ==
    /\ fpc = "fill"
    /\ \E p \in f_frontier :
          LET next == ({Add(p, d) : d \in Dirs6} \cap f_mask) \ f_visited
              first == IF next = {} THEN {} ELSE {LexMin(next)}
          IN /\ f_visited' = f_visited \cup first
             /\ f_frontier' = (f_frontier \ {p}) \cup first
    /\ UNCHANGED <<f_mask, f_position, fpc>>
    /\ UNCHANGED <<crustVars, diffVars, iterVars, dictVars>>

(* one voxel of the frontier is expanded: its face neighbours that are open
   and not yet visited are visited and join the frontier.  The voxel is any
   of the frontier: the order of the traversal is left open. *)
Visit ==
    /\ fpc = "fill"
    /\ \E p \in f_frontier :
          LET next == ({Add(p, d) : d \in Dirs6} \cap f_mask) \ f_visited
          IN /\ f_visited' = f_visited \cup next
             /\ f_frontier' = (f_frontier \ {p}) \cup next
    /\ UNCHANGED <<f_mask, f_position, fpc>>
    /\ UNCHANGED <<crustVars, diffVars, iterVars, dictVars>>

(* the frontier is empty: the visited voxels are returned *)
Reached ==
    /\ fpc = "fill"
    /\ f_frontier = {}
    /\ fpc' = "done"
    /\ UNCHANGED <<f_mask, f_position, f_frontier, f_visited>>
    /\ UNCHANGED <<crustVars, diffVars, iterVars, dictVars>>

FloodNext == Visit \/ Reached

FloodSpec == FloodInit /\ [][FloodNext]_vars

(* S holds every open face neighbour of its voxels *)
Closed(S, open) == \A p \in S, d \in Dirs6 : Add(p, d) \in open => Add(p, d) \in S

(* C is the 6-connected component of the open voxels that holds the seed: the
   least set of open voxels that holds the seed and is closed *)
IsComponent(C, seed, open) ==
    /\ seed \in C
    /\ C \subseteq open
    /\ Closed(C, open)
    /\ \A S \in SUBSET C : (seed \in S /\ Closed(S, open)) => S = C

(* C24: for an open seed the flood fill returns the 6-connected component of
   the open voxels that holds the seed, whatever the order of the traversal;
   it is the set flood_fill_at stands for in get_crust. *)
C24_FloodFillIsComponent ==
    fpc = "done" =>
       /\ IsComponent(f_visited, f_position, f_mask)
       /\ f_visited = flood_fill_at(f_position, f_mask)

C24_Witness ==
    /\ fpc = "done"
    /\ Cardinality(f_visited) >= 3
    /\ <<1, 0, 0>> \in f_visited
    /\ <<2, 1, 0>> \in f_mask \ f_visited

(* the voxels a label grid gives the label l *)
LabelClass(comp, l) == {p \in DOMAIN comp.cells : comp.cells[p] = l}

(* C25: during and after a labeling pass the labels above 1 are 2, 3, ...
   without a gap, each of them marks exactly one 6-connected component of
   the complement of the shell, and label 2 marks a component that has a
   voxel in a chunk of the hull. *)
C25_ConsecutiveLabels ==
    pc \in {"fill", "decide"} =>
       LET labels == LabelsFound(components) \ {1}
           open == Complement(crust, chunk_size)
       IN /\ \A l \in labels : l = 2 \/ (l - 1) \in labels
          /\ \A l \in labels :
                LabelClass(components, l) =
                    flood_fill_at(CHOOSE p \in LabelClass(components, l) : TRUE, open)
          /\ 2 \in labels =>
                \E p \in LabelClass(components, 2) :
                    ChunkIndex(p, chunk_size) \in iter_hull(crust)

-----------------------------------------------------------------------------
(* fill, called on its own *)

(* the label grids fill is given: a row of RowLen chunks of one voxel, every
   voxel shell (1) or open (0) *)
Row == {<<x, 0, 0>> : x \in 0..(RowLen - 1)}

RowGrid(shell) == [chunks |-> Row, set |-> shell]

(* fill(fill_position, fill_points, components, mask_empty, color) with the
   first open voxel as seed, or None when no voxel is open *)
FillInit ==
    /\ chunk_size = 1
    /\ max_steps = 1
    /\ revert_steps = 0
    /\ model = {}
    /\ crust \in {RowGrid(shell) : shell \in SUBSET Row}
    /\ last_crust = <<crust>>
    /\ last_count = 0
    /\ step = 0
    /\ components = astype_int(crust, chunk_size)
    /\ fill_position \in {IF Row \ crust.set = {} THEN None ELSE LexMin(Row \ crust.set)}
    /\ color \in 2..MaxStartColor
    /\ returned = EmptyGrid
    /\ pc = "fill"
    /\ DiffIdle /\ IterIdle /\ DictIdle /\ FloodIdle

FillNext == FillIter \/ FillExit

FillSpec == FillInit /\ [][FillNext]_vars

(* C26: fill never assigns a label above max_color: the label grid holds no
   such label. *)
C26_LabelsWithinBudget ==
    \A p \in DOMAIN components.cells : components.cells[p] <= max_color

(* C27: when the loop of fill ends because no fill position is left, no
   voxel of the resident chunks of the label grid has label 0. *)
C27_NoVoxelLeftUnlabeled ==
    (pc = "decide" /\ fill_position = None) => mask_empty(components) = {}

C27_Witness ==
    /\ pc = "decide" /\ fill_position = None
    /\ color <= max_color
    /\ Cardinality(LabelsFound(components) \ {1}) >= 3

(* C29: the model voxels are in the current shell and in every snapshot of
   the history, and the grid get_crust returns, converged or exhausted, is
   True at every model voxel. *)
C29_ModelInsideShell ==
    /\ model \subseteq crust.set
    /\ \A k \in 1..Len(last_crust) : model \subseteq last_crust[k].set
    /\ pc \in {"CONVERGED", "EXHAUSTED"} => model \subseteq returned.set

C29_Witness ==
    /\ pc \in {"CONVERGED", "EXHAUSTED"}
    /\ step >= 2
    /\ model # {}
    /\ returned.set # model

(* C11: when fill is entered with a seed while no voxel is open, it raises
   before any flood fill and before any label is written: the label grid and
   the colour are as they were, and get_crust ends there, with no further
   step and nothing returned. *)
C11_EmptyMaskRaisesFirst ==
    [][/\ (pc = "fill" /\ fill_position # None /\ mask_empty(components) = {})
            => (pc' = "ValueError" /\ components' = components /\ color' = color
                /\ crust' = crust /\ last_crust' = last_crust /\ returned' = returned)
       /\ pc = "ValueError" => (pc' = "ValueError" /\ returned' = returned)]_vars

C11_Witness ==
    pc = "ValueError" /\ mask_empty(components) = {} /\ LabelsFound(components) = {1}

====
